---------------------------- MODULE Spec2Model ----------------------------
(***************************************************************************)
(* A model of the personal finance ledger of src/main.py: the Record data  *)
(* holder, the FinanceTracker (load_data, save_data, add_record,           *)
(* edit_record, delete_record, search_records, show_balance) and the text  *)
(* file it persists to.                                                    *)
(*                                                                         *)
(* Representation.  A Python str is a sequence of one-character strings,   *)
(* so that strip, startswith, split and the substring test are computed    *)
(* character by character.  The module is ASCII only, so the Cyrillic      *)
(* literals of the source are transliterated letter by letter:             *)
(*   'Дата:' -> Data:   'Категория:' -> Kategoriya:   'Сумма:' -> Summa:   *)
(*   'Описание:' -> Opisanie:   'Доход' -> Dohod   'Расход' -> Rashod      *)
(* A number is [kind, v]: kind tells int from float (str(0) is '0' and     *)
(* str(0.0) is '0.0') and v is the value in tenths, so 50.0 is             *)
(* [kind |-> "float", v |-> 500].  Arithmetic on v is exact; the rounding  *)
(* of binary floating point is not modelled.                               *)
(* The file is [exists, lines]: whether data_file exists and its text as   *)
(* the sequence of its lines, each without the terminating newline.        *)
(***************************************************************************)
EXTENDS Integers, Sequences, FiniteSets, TLC

VARIABLES
    pc,       \* "start": no tracker yet; "ready": tracker built, between calls;
              \* "crashed": an exception left FinanceTracker.__init__
    file,     \* the content of data_file
    records,  \* FinanceTracker.records
    call,     \* the last call made: [op, index, rec, query]
    repeated, \* whether the last call repeated the call before it (same
              \* method, same arguments)
    raised,   \* the exception the last call raised, or "none"
    wrote,    \* whether the last call opened data_file for writing
    out,      \* what the last call printed or returned: [error, matches,
              \* totals, valid]
    menu      \* the local variables of main: [choice, index, date, category,
              \* amount]

vars == <<pc, file, records, call, repeated, raised, wrote, out, menu>>

-----------------------------------------------------------------------------
(* Python str operations *)

\* the literals of the source
LblDate        == <<"D","a","t","a",":">>
LblCategory    == <<"K","a","t","e","g","o","r","i","y","a",":">>
LblAmount      == <<"S","u","m","m","a",":">>
LblDescription == <<"O","p","i","s","a","n","i","e",":">>
Separator      == <<":"," ">>
Income         == <<"D","o","h","o","d">>
Expense        == <<"R","a","s","h","o","d">>

Digits == <<"0","1","2","3","4","5","6","7","8","9">>
IsDigit(c) == \E d \in 1..10 : Digits[d] = c
DigitValue(c) == (CHOOSE d \in 1..10 : Digits[d] = c) - 1

IsSpace(c) == c = " "

\* s[i:] with a 1-based i
Drop(s, i) == SubSeq(s, i, Len(s))

\* s.startswith(p)
StartsWith(s, p) == Len(p) <= Len(s) /\ SubSeq(s, 1, Len(p)) = p

\* s.find(p) as a 1-based position, 0 when p does not occur in s
Find(s, p) ==
    LET hits == {i \in 1..(Len(s) - Len(p) + 1) : SubSeq(s, i, i + Len(p) - 1) = p}
    IN  IF hits = {} THEN 0 ELSE CHOOSE i \in hits : \A j \in hits : i <= j

\* p in s
Contains(s, p) == \E i \in 1..(Len(s) - Len(p) + 1) : SubSeq(s, i, i + Len(p) - 1) = p

\* s.strip()
RECURSIVE LStrip(_)
LStrip(s) == IF s # <<>> /\ IsSpace(s[1]) THEN LStrip(Tail(s)) ELSE s
RECURSIVE RStrip(_)
RStrip(s) == IF s # <<>> /\ IsSpace(s[Len(s)]) THEN RStrip(SubSeq(s, 1, Len(s) - 1)) ELSE s
Strip(s) == RStrip(LStrip(s))

\* s.split(sep): every part, cut at every occurrence of sep from the left
RECURSIVE Split(_, _)
Split(s, sep) ==
    LET i == Find(s, sep)
    IN  IF i = 0 THEN <<s>>
        ELSE <<SubSeq(s, 1, i - 1)>> \o Split(Drop(s, i + Len(sep)), sep)

\* str(n) for a natural number n
RECURSIVE NatStr(_)
NatStr(n) == IF n < 10 THEN <<Digits[n + 1]>> ELSE NatStr(n \div 10) \o <<Digits[(n % 10) + 1]>>

Abs(n) == IF n < 0 THEN -n ELSE n

\* str(x) for a number x
NumStr(x) ==
    (IF x.v < 0 THEN <<"-">> ELSE <<>>)
    \o NatStr(Abs(x.v) \div 10)
    \o (IF x.kind = "float" THEN <<".">> \o NatStr(Abs(x.v) % 10) ELSE <<>>)

Float(tenths) == [kind |-> "float", v |-> tenths]
IntZero == [kind |-> "int", v |-> 0]

\* whether float(s) returns: optional blanks, an optional sign, digits with an
\* optional point among them (at least one digit), optional blanks
UnsignedOk(u) ==
    LET p == Find(u, <<".">>)
        ip == IF p = 0 THEN u ELSE SubSeq(u, 1, p - 1)
        fp == IF p = 0 THEN <<>> ELSE Drop(u, p + 1)
    IN  /\ \A i \in 1..Len(ip) : IsDigit(ip[i])
        /\ \A i \in 1..Len(fp) : IsDigit(fp[i])
        /\ Len(ip) + Len(fp) > 0
Unsigned(t) == IF t # <<>> /\ t[1] \in {"+", "-"} THEN Tail(t) ELSE t
FloatOk(s) == UnsignedOk(Unsigned(Strip(s)))

RECURSIVE NatValue(_)
NatValue(ds) == IF ds = <<>> THEN 0 ELSE 10 * NatValue(SubSeq(ds, 1, Len(ds) - 1)) + DigitValue(ds[Len(ds)])

\* float(s) where FloatOk(s); the inputs of the model carry at most one
\* fractional digit, which is what a value in tenths can hold
FloatValue(s) ==
    LET t == Strip(s)
        u == Unsigned(t)
        p == Find(u, <<".">>)
        ip == IF p = 0 THEN u ELSE SubSeq(u, 1, p - 1)
        fp == IF p = 0 THEN <<>> ELSE Drop(u, p + 1)
        mag == 10 * NatValue(ip) + (IF fp = <<>> THEN 0 ELSE DigitValue(fp[1]))
    IN  Float(IF t # <<>> /\ t[1] = "-" THEN -mag ELSE mag)

-----------------------------------------------------------------------------
(* Record *)

Record(date, category, amount, description) ==
    [date |-> date, category |-> category, amount |-> amount, description |-> description]

-----------------------------------------------------------------------------
(* The backing file *)

NoFile == [exists |-> FALSE, lines |-> <<>>]

\* open(data_file, 'w') ... write ...: the file is created or truncated and
\* holds what was written
OpenWriteAppending(old, lines) == [exists |-> TRUE, lines |-> old.lines \o lines]
OpenWrite(old, lines) == [exists |-> TRUE, lines |-> lines]

\* the five lines save_data writes for one record
Block(r) ==
    << LblDate \o <<" ">> \o r.date,
       LblCategory \o <<" ">> \o r.category,
       LblAmount \o <<" ">> \o NumStr(r.amount),
       LblDescription \o <<" ">> \o r.description,
       <<>> >>

\* everything save_data writes, in list order
RECURSIVE SaveLines(_)
SaveLines(recs) == IF recs = <<>> THEN <<>> ELSE Block(Head(recs)) \o SaveLines(Tail(recs))

-----------------------------------------------------------------------------
(* load_data *)

\* line.split(': ')
LineParts(line) == Split(line, Separator)

\* the loop state of load_data: self.records, the local `record` (has: it is
\* not None) and the exception that ended the loop, if any
LoadStateCleared(recs) ==
    [records |-> <<>>, record |-> Record(<<>>, <<>>, IntZero, <<>>), has |-> FALSE, raised |-> "none"]
LoadState(recs) ==
    [records |-> recs, record |-> Record(<<>>, <<>>, IntZero, <<>>), has |-> FALSE, raised |-> "none"]

Fail(st, exc) == [st EXCEPT !.raised = exc]

\* `record.<field> = <right-hand side>`: the right-hand side is evaluated first
\* (IndexError from [1], ValueError from float), then the attribute of None is set
SetField(st, parts, field) ==
    IF Len(parts) < 2 THEN Fail(st, "IndexError")
    ELSE IF field = "amount" /\ ~FloatOk(parts[2]) THEN Fail(st, "ValueError")
    ELSE IF ~st.has THEN Fail(st, "AttributeError")
    ELSE [st EXCEPT !.record[field] = IF field = "amount" THEN FloatValue(parts[2]) ELSE parts[2]]

\* one iteration of `for line in file`
LoadStep(st, raw) ==
    LET line == Strip(raw)
        parts == LineParts(line)
    IN  IF StartsWith(line, LblDate) THEN
            LET appended == IF st.has THEN Append(st.records, st.record) ELSE st.records
            IN  IF Len(parts) < 2
                THEN [st EXCEPT !.records = appended, !.raised = "IndexError"]
                ELSE [records |-> appended,
                      record  |-> Record(parts[2], <<>>, IntZero, <<>>),
                      has     |-> TRUE,
                      raised  |-> "none"]
        ELSE IF StartsWith(line, LblCategory) THEN SetField(st, parts, "category")
        ELSE IF StartsWith(line, LblAmount) THEN SetField(st, parts, "amount")
        ELSE IF StartsWith(line, LblDescription) THEN SetField(st, parts, "description")
        ELSE st

RECURSIVE LoadLoop(_, _)
LoadLoop(st, lines) ==
    IF lines = <<>> \/ st.raised # "none" THEN st
    ELSE LoadLoop(LoadStep(st, Head(lines)), Tail(lines))

LoadDataDroppingLast(recs, f) ==
    IF ~f.exists THEN [records |-> recs, raised |-> "none"]
    ELSE LET st == LoadLoop(LoadState(recs), f.lines)
         IN  [records |-> st.records, raised |-> st.raised]

LoadDataMissingRaises(recs, f) ==
    IF ~f.exists THEN [records |-> recs, raised |-> "FileNotFoundError"]
    ELSE LET st == LoadLoop(LoadState(recs), f.lines)
         IN  IF st.raised # "none" THEN [records |-> st.records, raised |-> st.raised]
             ELSE [records |-> IF st.has THEN Append(st.records, st.record) ELSE st.records,
                   raised  |-> "none"]

\* load_data on a tracker holding recs: [records, raised] afterwards
LoadData(recs, f) ==
    IF ~f.exists THEN [records |-> recs, raised |-> "none"]   \* FileNotFoundError: pass
    ELSE LET st == LoadLoop(LoadState(recs), f.lines)
         IN  IF st.raised # "none" THEN [records |-> st.records, raised |-> st.raised]
             ELSE [records |-> IF st.has THEN Append(st.records, st.record) ELSE st.records,
                   raised  |-> "none"]

-----------------------------------------------------------------------------
(* FinanceTracker: the methods as functions of the record list *)

\* save_data: the file after it
SaveData(f, recs) == OpenWrite(f, SaveLines(recs))

\* add_record: self.records.append(record)
AddRecordFirst(recs, r) == <<r>> \o recs
AddRecord(recs, r) == Append(recs, r)

\* the range check of edit_record and delete_record
IndexOutOfRangeHighOnly(index, n) == index >= n
IndexOutOfRange(index, n) == index < 0 \/ index >= n

\* Python list indexing: the 1-based position a 0-based index addresses in a
\* list of n items (a negative index counts from the end), 0 for IndexError
Position(index, n) ==
    LET i == IF index < 0 THEN index + n ELSE index
    IN  IF 0 <= i /\ i < n THEN i + 1 ELSE 0

\* self.records[index] = Record(...)
SetItemMerging(recs, p, r) == [recs EXCEPT ![p] = [r EXCEPT !.description = recs[p].description]]
SetItem(recs, p, r) == [recs EXCEPT ![p] = r]

\* del self.records[index]
DelItemLast(recs, p) == SubSeq(recs, 1, Len(recs) - 1)
DelItem(recs, p) == SubSeq(recs, 1, p - 1) \o SubSeq(recs, p + 1, Len(recs))

\* the outcome of a mutating method: the list, whether save_data ran, whether
\* the error message was printed, the exception raised
Outcome(recs, saved, error, exc) ==
    [records |-> recs, saved |-> saved, error |-> error, raised |-> exc]

EditRecord(recs, index, r) ==
    IF IndexOutOfRange(index, Len(recs)) THEN Outcome(recs, FALSE, TRUE, "none")
    ELSE IF Position(index, Len(recs)) = 0 THEN Outcome(recs, FALSE, FALSE, "IndexError")
    ELSE Outcome(SetItem(recs, Position(index, Len(recs)), r), TRUE, FALSE, "none")

DeleteRecord(recs, index) ==
    IF IndexOutOfRange(index, Len(recs)) THEN Outcome(recs, FALSE, TRUE, "none")
    ELSE IF Position(index, Len(recs)) = 0 THEN Outcome(recs, FALSE, FALSE, "IndexError")
    ELSE Outcome(DelItem(recs, Position(index, Len(recs))), TRUE, FALSE, "none")

\* the condition of search_records
MatchesAnyField(query, r) ==
    \/ Contains(r.date, query)
    \/ Contains(r.category, query)
    \/ Contains(NumStr(r.amount), query)
    \/ Contains(r.description, query)
Matches(query, r) ==
    \/ Contains(r.date, query)
    \/ Contains(r.category, query)
    \/ NumStr(r.amount) = query

\* what search_records prints for the record at 0-based index i
Printed(i, r) ==
    [index |-> i, date |-> r.date, category |-> r.category,
     amount |-> NumStr(r.amount), description |-> r.description]

\* search_records: the lines printed, scanning from 1-based position p
RECURSIVE SearchFrom(_, _, _)
SearchFrom(recs, query, p) ==
    IF p > Len(recs) THEN <<>>
    ELSE (IF Matches(query, recs[p]) THEN <<Printed(p - 1, recs[p])>> ELSE <<>>)
         \o SearchFrom(recs, query, p + 1)
SearchRecords(recs, query) == SearchFrom(recs, query, 1)

\* sum(record.amount for record in self.records if record.category == category),
\* in tenths
RECURSIVE SumAll(_, _)
SumAll(recs, category) ==
    IF recs = <<>> THEN 0 ELSE Head(recs).amount.v + SumAll(Tail(recs), category)
RECURSIVE SumWhere(_, _)
SumWhere(recs, category) ==
    IF recs = <<>> THEN 0
    ELSE (IF Head(recs).category = category THEN Head(recs).amount.v ELSE 0)
         + SumWhere(Tail(recs), category)

\* show_balance: <<balance, income, expense>>
ShowBalance(recs) ==
    LET income  == SumWhere(recs, Income)
        expense == SumWhere(recs, Expense)
    IN  <<income - expense, income, expense>>

-----------------------------------------------------------------------------
(* is_valid_date: datetime.strptime(date_string, "%Y-%m-%d") *)

\* the directives as _strptime matches them, each the lengths of the text it
\* can take at the head of s, in the order the alternatives are tried:
\* %Y is \d\d\d\d, %m is 1[0-2]|0[1-9]|[1-9], %d is 3[0-1]|[1-2]\d|0[1-9]|[1-9]| [1-9]
AllDigits(s) == \A i \in 1..Len(s) : IsDigit(s[i])
Take(s, n) == SubSeq(s, 1, n)

YearTakes(s) == IF Len(s) >= 4 /\ AllDigits(Take(s, 4)) THEN <<4>> ELSE <<>>

MonthTakes(s) ==
    (IF Len(s) >= 2 /\ AllDigits(Take(s, 2)) /\ NatValue(Take(s, 2)) \in 1..12
     THEN <<2>> ELSE <<>>)
    \o (IF Len(s) >= 1 /\ IsDigit(s[1]) /\ s[1] # "0" THEN <<1>> ELSE <<>>)

DayTakes(s) ==
    (IF Len(s) >= 2 /\ AllDigits(Take(s, 2)) /\ NatValue(Take(s, 2)) \in 1..31
     THEN <<2>> ELSE <<>>)
    \o (IF Len(s) >= 1 /\ IsDigit(s[1]) /\ s[1] # "0" THEN <<1>> ELSE <<>>)
    \o (IF Len(s) >= 2 /\ s[1] = " " /\ IsDigit(s[2]) /\ s[2] # "0" THEN <<2>> ELSE <<>>)

IsLeap(y) == (y % 4 = 0 /\ y % 100 # 0) \/ y % 400 = 0
DaysIn(y, m) ==
    IF m = 2 THEN (IF IsLeap(y) THEN 29 ELSE 28)
    ELSE IF m \in {4, 6, 9, 11} THEN 30 ELSE 31

\* the first match of the format at the head of s, as the regular expression
\* engine finds it (alternatives in order, backtracking over the month):
\* [found, year, month, day, end]
FirstMatch(s) ==
    LET none == [found |-> FALSE, year |-> 0, month |-> 0, day |-> 0, end |-> 0]
    IN  IF YearTakes(s) = <<>> \/ Len(s) < 5 \/ s[5] # "-" THEN none
        ELSE LET ms == Drop(s, 6)
                 ok == {k \in 1..Len(MonthTakes(ms)) :
                          LET n == MonthTakes(ms)[k]
                          IN  /\ Len(ms) > n
                              /\ ms[n + 1] = "-"
                              /\ DayTakes(Drop(ms, n + 2)) # <<>>}
             IN  IF ok = {} THEN none
                 ELSE LET k  == CHOOSE k \in ok : \A j \in ok : k <= j
                          n  == MonthTakes(ms)[k]
                          ds == Drop(ms, n + 2)
                          dn == DayTakes(ds)[1]
                      IN  [found |-> TRUE,
                           year  |-> NatValue(Take(s, 4)),
                           month |-> NatValue(Take(ms, n)),
                           day   |-> NatValue(Strip(Take(ds, dn))),
                           end   |-> 5 + n + 1 + dn]

\* is_valid_date: strptime raises ValueError when the format does not match,
\* when text remains after the match, and when the date does not exist
\* (datetime takes years 1..9999); is_valid_date turns that into False
IsValidDate(s) ==
    LET m == FirstMatch(s)
    IN  /\ m.found
        /\ m.end = Len(s)
        /\ m.year >= 1
        /\ m.day <= DaysIn(m.year, m.month)

-----------------------------------------------------------------------------
(* The values the calls are made with *)

\* the largest number of records add_record is called up to
MaxRecords == 3

Date1      == <<"2","0","2","4","-","0","1","-","0","1">>
Date2      == <<"2","0","2","3","-","1","2","-","3","1">>
DateBad    == <<"2","0","2","4","-","1","-","1">>

\* the records the caller passes to add_record and edit_record: three as the
\* menu would pass them (a plain description, one holding ": ", an empty one)
\* and one no validation would let through
MenuRecords ==
    { Record(Date1, Income,  Float(500), <<"x">>),
      Record(Date2, Expense, Float(5),   <<"a", ":", " ", "b">>),
      Record(Date1, Expense, Float(0),   <<>>) }
ArgRecords ==
    MenuRecords \cup { Record(DateBad, <<"x">>, Float(-10), <<"0", ".", "0", " ">>) }

Indices == -1..MaxRecords

Queries ==
    { <<>>, <<"2","0","2","4">>, <<"h","o","d">>, <<"5","0",".","0">>,
      <<"0",".","0">>, <<"x">> }

NoRecord == Record(<<>>, <<>>, IntZero, <<>>)
NoOutput == [error |-> FALSE, matches |-> <<>>, totals |-> <<0, 0, 0>>, valid |-> FALSE]
NoInput == [choice |-> "none", index |-> 0, date |-> <<>>, category |-> <<>>, amount |-> IntZero]
Call(op, index, r, query) == [op |-> op, index |-> index, rec |-> r, query |-> query]

-----------------------------------------------------------------------------
(* The state machine: one action per call on the tracker *)

Init ==
    /\ pc = "start"
    /\ file = NoFile
    /\ records = <<>>
    /\ call = Call("none", 0, NoRecord, <<>>)
    /\ repeated = FALSE
    /\ raised = "none"
    /\ wrote = FALSE
    /\ out = NoOutput
    /\ menu = NoInput

\* FinanceTracker(data_file): a new tracker on the same file, at the start of a
\* run of the program; an exception load_data raises leaves the constructor
FinanceTracker_init ==
    LET res == LoadData(<<>>, file)
    IN  /\ records' = res.records
        /\ raised' = res.raised
        /\ pc' = IF res.raised = "none" THEN "ready" ELSE "crashed"
        /\ call' = Call("__init__", 0, NoRecord, <<>>)
        /\ repeated' = (call' = call)
        /\ wrote' = FALSE
        /\ out' = NoOutput
        /\ UNCHANGED <<file, menu>>

\* a mutating call c whose outcome is res
Mutate(c, res) ==
    /\ call' = c
    /\ repeated' = (c = call)
    /\ records' = res.records
    /\ file' = IF res.saved THEN SaveData(file, res.records) ELSE file
    /\ wrote' = res.saved
    /\ raised' = res.raised
    /\ pc' = IF res.raised = "none" THEN "ready" ELSE "crashed"
    /\ out' = [NoOutput EXCEPT !.error = res.error]

save_data ==
    /\ pc = "ready"
    /\ Mutate(Call("save_data", 0, NoRecord, <<>>), Outcome(records, TRUE, FALSE, "none"))
    /\ UNCHANGED menu

add_record ==
    /\ pc = "ready"
    /\ Len(records) < MaxRecords
    /\ \E r \in ArgRecords :
        Mutate(Call("add_record", 0, r, <<>>),
               Outcome(AddRecord(records, r), TRUE, FALSE, "none"))
    /\ UNCHANGED menu

edit_record ==
    /\ pc = "ready"
    /\ \E index \in Indices, r \in ArgRecords :
        Mutate(Call("edit_record", index, r, <<>>), EditRecord(records, index, r))
    /\ UNCHANGED menu

delete_record ==
    /\ pc = "ready"
    /\ \E index \in Indices :
        Mutate(Call("delete_record", index, NoRecord, <<>>), DeleteRecord(records, index))
    /\ UNCHANGED menu

RECURSIVE Matching(_, _)
Matching(recs, query) ==
    IF recs = <<>> THEN <<>>
    ELSE (IF Matches(query, Head(recs)) THEN <<Head(recs)>> ELSE <<>>)
         \o Matching(Tail(recs), query)

search_records_filtering ==
    /\ pc = "ready"
    /\ \E query \in Queries :
        /\ out' = [NoOutput EXCEPT !.matches = SearchRecords(records, query)]
        /\ call' = Call("search_records", 0, NoRecord, query)
        /\ records' = Matching(records, query)
    /\ raised' = "none"
    /\ wrote' = FALSE
    /\ repeated' = (call' = call)
    /\ UNCHANGED <<pc, file, menu>>

search_records ==
    /\ pc = "ready"
    /\ \E query \in Queries :
        /\ out' = [NoOutput EXCEPT !.matches = SearchRecords(records, query)]
        /\ call' = Call("search_records", 0, NoRecord, query)
    /\ raised' = "none"
    /\ wrote' = FALSE
    /\ repeated' = (call' = call)
    /\ UNCHANGED <<pc, file, records, menu>>

show_balance ==
    /\ pc = "ready"
    /\ out' = [NoOutput EXCEPT !.totals = ShowBalance(records)]
    /\ call' = Call("show_balance", 0, NoRecord, <<>>)
    /\ raised' = "none"
    /\ wrote' = FALSE
    /\ repeated' = (call' = call)
    /\ UNCHANGED <<pc, file, records, menu>>

\* is_valid_date called with one of the strings of S
IsValidDateCall(S) ==
    /\ pc = "ready"
    /\ \E s \in S :
        /\ out' = [NoOutput EXCEPT !.valid = IsValidDate(s)]
        /\ call' = Call("is_valid_date", 0, NoRecord, s)
    /\ raised' = "none"
    /\ wrote' = FALSE
    /\ repeated' = (call' = call)
    /\ UNCHANGED <<pc, file, records, menu>>

is_valid_date == IsValidDateCall({Date1, DateBad, <<>>})

Next ==
    \/ FinanceTracker_init
    \/ save_data
    \/ add_record
    \/ edit_record
    \/ delete_record
    \/ search_records
    \/ show_balance
    \/ is_valid_date

Spec == Init /\ [][Next]_vars

-----------------------------------------------------------------------------
(* Loading files the program did not write *)

\* the largest number of lines of such a file
MaxLines == 3

\* lines of a backing file: the four labelled lines as save_data writes them,
\* amount lines whose value is no number, holds a second ": " or is missing,
\* a description holding ": ", a blank line and an unrecognized line
FileLines ==
    { LblDate \o <<" ">> \o Date1,
      LblCategory \o <<" ">> \o Income,
      LblAmount \o <<" ">> \o <<"5","0",".","0">>,
      LblAmount \o <<" ">> \o <<"a","b","c">>,
      LblAmount \o <<" ">> \o <<"5",":"," ","x">>,
      LblAmount,
      LblDescription \o <<" ">> \o <<"a",":"," ","b">>,
      LblDescription \o <<" ">>,
      <<>>,
      <<"n","o","t","e">> }

SeqsUpTo(S, n) == UNION {[1..k -> S] : k \in 0..n}

InitLoad ==
    /\ pc = "start"
    /\ file \in {[exists |-> TRUE, lines |-> ls] : ls \in SeqsUpTo(FileLines, MaxLines)}
    /\ records = <<>>
    /\ call = Call("none", 0, NoRecord, <<>>)
    /\ repeated = FALSE
    /\ raised = "none"
    /\ wrote = FALSE
    /\ out = NoOutput
    /\ menu = NoInput

SpecLoad == InitLoad /\ [][FinanceTracker_init]_vars

\* load_data called on the built tracker, which holds what earlier loads left
\* (no more than two loads of a file are followed by another)
load_data ==
    /\ pc = "ready"
    /\ Len(records) <= MaxLines
    /\ LET res == LoadData(records, file)
       IN  /\ records' = res.records
           /\ raised' = res.raised
           /\ pc' = IF res.raised = "none" THEN "ready" ELSE "crashed"
    /\ call' = Call("load_data", 0, NoRecord, <<>>)
    /\ repeated' = (call' = call)
    /\ wrote' = FALSE
    /\ out' = NoOutput
    /\ UNCHANGED <<file, menu>>

NextReload ==
    \/ FinanceTracker_init
    \/ load_data

SpecReload == InitLoad /\ [][NextReload]_vars

-----------------------------------------------------------------------------
(* Checking date strings *)

DateYears  == { <<"2","0","2","4">>, <<"2","0","2","3">>, <<"1","9","0","0">>, <<"2","0","0","0">> }
DateMonths == { <<"0","1">>, <<"0","2">>, <<"0","4">>, <<"1","2">>, <<"1","3">>, <<"0","0">>,
                <<"1">>, <<"2">> }
DateDays   == { <<"0","1">>, <<"2","9">>, <<"3","0">>, <<"3","1">>, <<"3","2">>, <<"0","0">>,
                <<"1">>, <<" ","1">> }

\* the strings is_valid_date is called with: year-month-day of the parts
\* above, and strings of another shape
DateStrings ==
    { y \o <<"-">> \o m \o <<"-">> \o d : y \in DateYears, m \in DateMonths, d \in DateDays }
    \cup { <<>>,
           Date1 \o <<" ">>,
           <<" ">> \o Date1,
           Date1 \o <<"1">>,
           <<"2","0","2","4","0","1","0","1">>,
           <<"2","4","-","0","1","-","0","1">>,
           <<"2","0","2","4","/","0","1","/","0","1">> }

InitDate ==
    /\ pc = "ready"
    /\ file = NoFile
    /\ records = <<>>
    /\ call = Call("__init__", 0, NoRecord, <<>>)
    /\ repeated = FALSE
    /\ raised = "none"
    /\ wrote = FALSE
    /\ out = NoOutput
    /\ menu = NoInput

check_date == IsValidDateCall(DateStrings)

SpecDate == InitDate /\ [][check_date]_vars

-----------------------------------------------------------------------------
(* main: the menu loop *)

\* the largest number of records the menu's add is chosen up to
MaxMenuRecords == 2

\* what the user types at the prompts
DateWrong == <<"2","0","2","4","-","1","3","-","0","1">>
TypedDates       == {Date1, DateBad, DateWrong}
TypedCategories  == {Income, Expense, <<"x">>}
TypedAmounts     == {<<"5","0",".","0">>, <<"-","1",".","0">>, <<"a","b","c">>}
TypedIndices     == {<<"0">>, <<"1">>, <<"-","1">>, <<"x">>}
TypedDescriptions == {<<"x">>}

\* int(s): whether it returns, and its value
IntOk(s) == Unsigned(Strip(s)) # <<>> /\ AllDigits(Unsigned(Strip(s)))
IntValue(s) ==
    LET t == Strip(s)
    IN  IF t[1] = "-" THEN -NatValue(Unsigned(t)) ELSE NatValue(Unsigned(t))

\* the conditions of the three re-prompting loops
DateRejectedIfEmpty(date) == date = <<>>
DateRejected(date) == IsValidDate(date) = FALSE
CategoryRejected(category) == category # Income /\ category # Expense
AmountRejected(amount) == amount.v < 0

\* the state after tracker = FinanceTracker(data_file) where no file exists
InitMenu ==
    /\ pc = "ready"
    /\ file = NoFile
    /\ records = <<>>
    /\ call = Call("__init__", 0, NoRecord, <<>>)
    /\ repeated = FALSE
    /\ raised = "none"
    /\ wrote = FALSE
    /\ out = NoOutput
    /\ menu = NoInput

\* a step of main that calls no method of the tracker
Prompt == UNCHANGED <<file, records, call, repeated, wrote, out>>

\* an exception main does not catch ends the program
Crash(exc) ==
    /\ raised' = exc
    /\ pc' = "crashed"
    /\ menu' = NoInput
    /\ Prompt

\* choice '1': the first date is read
choose_add ==
    /\ pc = "ready"
    /\ Len(records) < MaxMenuRecords
    /\ \E d \in TypedDates : menu' = [NoInput EXCEPT !.choice = "1", !.date = d]
    /\ pc' = "date"
    /\ UNCHANGED raised
    /\ Prompt

\* choice '2': the index and the first date are read
choose_edit ==
    /\ pc = "ready"
    /\ \E i \in TypedIndices, d \in TypedDates :
        IF IntOk(i)
        THEN /\ menu' = [NoInput EXCEPT !.choice = "2", !.index = IntValue(i), !.date = d]
             /\ pc' = "date"
             /\ UNCHANGED raised
             /\ Prompt
        ELSE Crash("ValueError")

\* while tracker.is_valid_date(date) == False: date = input(...)
reprompt_date ==
    /\ pc = "date"
    /\ DateRejected(menu.date)
    /\ \E d \in TypedDates : menu' = [menu EXCEPT !.date = d]
    /\ UNCHANGED <<pc, raised>>
    /\ Prompt

\* the date loop ends and the first category is read
read_category ==
    /\ pc = "date"
    /\ ~DateRejected(menu.date)
    /\ \E c \in TypedCategories : menu' = [menu EXCEPT !.category = c]
    /\ pc' = "category"
    /\ UNCHANGED raised
    /\ Prompt

\* while category != 'Доход' and category != 'Расход': category = input(...)
reprompt_category ==
    /\ pc = "category"
    /\ CategoryRejected(menu.category)
    /\ \E c \in TypedCategories : menu' = [menu EXCEPT !.category = c]
    /\ UNCHANGED <<pc, raised>>
    /\ Prompt

\* amount = float(input(...)), after the category loop or inside the amount loop
ReadAmount ==
    \E a \in TypedAmounts :
        IF FloatOk(a)
        THEN /\ menu' = [menu EXCEPT !.amount = FloatValue(a)]
             /\ pc' = "amount"
             /\ UNCHANGED raised
             /\ Prompt
        ELSE Crash("ValueError")

read_amount ==
    /\ pc = "category"
    /\ ~CategoryRejected(menu.category)
    /\ ReadAmount

\* while amount < 0: amount = float(input(...))
reprompt_amount ==
    /\ pc = "amount"
    /\ AmountRejected(menu.amount)
    /\ ReadAmount

\* the amount loop ends, the description is read and add_record or
\* edit_record is called; the locals are dead afterwards and are cleared
submit ==
    /\ pc = "amount"
    /\ ~AmountRejected(menu.amount)
    /\ \E d \in TypedDescriptions :
        LET r == Record(menu.date, menu.category, menu.amount, d)
        IN  IF menu.choice = "1"
            THEN Mutate(Call("add_record", 0, r, <<>>),
                        Outcome(AddRecord(records, r), TRUE, FALSE, "none"))
            ELSE Mutate(Call("edit_record", menu.index, r, <<>>),
                        EditRecord(records, menu.index, r))
    /\ menu' = NoInput

\* choice '3': the index is read and delete_record is called
choose_delete ==
    /\ pc = "ready"
    /\ \E i \in TypedIndices :
        IF IntOk(i)
        THEN /\ Mutate(Call("delete_record", IntValue(i), NoRecord, <<>>),
                       DeleteRecord(records, IntValue(i)))
             /\ UNCHANGED menu
        ELSE Crash("ValueError")

\* choice '6'
choose_exit ==
    /\ pc = "ready"
    /\ pc' = "exited"
    /\ UNCHANGED <<raised, menu>>
    /\ Prompt

\* choices '4' and '5' are search_records and show_balance; any other choice
\* prints a message and changes nothing
NextMenu ==
    \/ choose_add
    \/ choose_edit
    \/ reprompt_date
    \/ read_category
    \/ reprompt_category
    \/ read_amount
    \/ reprompt_amount
    \/ submit
    \/ choose_delete
    \/ search_records
    \/ show_balance
    \/ choose_exit

SpecMenu == InitMenu /\ [][NextMenu]_vars

-----------------------------------------------------------------------------
(* Properties *)

\* the persisted format: the lines hold exactly one block per record of recs,
\* in list order, each block the four labelled lines and a blank line
BlocksAre(lines, recs) ==
    /\ Len(lines) = 5 * Len(recs)
    /\ \A k \in 1..Len(recs) :
        /\ lines[5 * k - 4] = LblDate \o <<" ">> \o recs[k].date
        /\ lines[5 * k - 3] = LblCategory \o <<" ">> \o recs[k].category
        /\ lines[5 * k - 2] = LblAmount \o <<" ">> \o NumStr(recs[k].amount)
        /\ lines[5 * k - 1] = LblDescription \o <<" ">> \o recs[k].description
        /\ lines[5 * k] = <<>>
FileHolds(f, recs) == f.exists /\ BlocksAre(f.lines, recs)

\* YYYY-MM-DD: ten characters, digits but for the two dashes
IsDateShaped(s) ==
    /\ Len(s) = 10
    /\ \A i \in 1..10 : IF i \in {5, 8} THEN s[i] = "-" ELSE IsDigit(s[i])

\* a record as the menu passes it: a date, a category sentinel, an amount that
\* is not negative, any description
WellFormed(r) ==
    /\ IsDateShaped(r.date)
    /\ r.category \in {Income, Expense}
    /\ r.amount.kind = "float" /\ r.amount.v >= 0

\* the step is a call of method op on a built tracker
Calls(op) == pc = "ready" /\ call'.op = op

\* C1: between the operations of a tracker, the file holds exactly one block
\* per in-memory record, in list order, and no other block
C1_FileMatchesRecords ==
    pc = "ready" => BlocksAre(file.lines, records)

\* C2: a non-empty list of well-formed records that save_data has written is
\* read back by a fresh tracker on the same file with the same length, order
\* and field values
C2_RoundTrip ==
    [][ ( /\ Calls("__init__")
          /\ wrote
          /\ records # <<>>
          /\ \A k \in 1..Len(records) : WellFormed(records[k]) )
        => (raised' = "none" /\ records' = records) ]_vars

\* C3: edit_record and delete_record with an index below 0 or not below the
\* record count raise nothing, leave the list as it is and do not write the file
C3_OutOfRangeIsNoOp ==
    [][ ( /\ Calls("edit_record") \/ Calls("delete_record")
          /\ (call'.index < 0 \/ call'.index >= Len(records)) )
        => ( /\ raised' = "none"
             /\ pc' = "ready"
             /\ records' = records
             /\ ~wrote'
             /\ file' = file ) ]_vars

C3_Witness ==
    /\ call.op \in {"edit_record", "delete_record"}
    /\ call.index = -1
    /\ Len(records) >= 1
    /\ out.error
    /\ file.exists

\* C4: delete_record(i) with i in range removes one record: those before i
\* stay, those after i move one index down unchanged, and the file is rewritten
\* to the resulting list
C4_DeleteShifts ==
    [][ ( /\ Calls("delete_record")
          /\ 0 <= call'.index /\ call'.index < Len(records) )
        => ( /\ Len(records') = Len(records) - 1
             /\ \A j \in 1..Len(records) :
                   /\ j < call'.index + 1 => records'[j] = records[j]
                   /\ j > call'.index + 1 => records'[j - 1] = records[j]
             /\ raised' = "none"
             /\ wrote'
             /\ FileHolds(file', records') ) ]_vars

C4_Witness ==
    /\ call.op = "delete_record"
    /\ call.index = 1
    /\ Len(records) = 2
    /\ wrote
    /\ records[1] # records[2]

\* C5: add_record validates nothing: whatever the arguments, the count grows
\* by one, the records held stay at their indices, the new record with the
\* four given values is the last one, and the file is rewritten to the list
C5_AddAppends ==
    [][ Calls("add_record")
        => ( /\ Len(records') = Len(records) + 1
             /\ SubSeq(records', 1, Len(records)) = records
             /\ records'[Len(records')] = call'.rec
             /\ raised' = "none"
             /\ wrote'
             /\ FileHolds(file', records') ) ]_vars

C5_Witness ==
    /\ call.op = "add_record"
    /\ ~WellFormed(call.rec)
    /\ Len(records) >= 2
    /\ records[Len(records)] = call.rec
    /\ records[1] # call.rec

\* C6: edit_record with an index in range replaces the record there by one
\* with exactly the four given values, leaves the count and every other record
\* as they are, and rewrites the file to the list
C6_EditReplaces ==
    [][ ( /\ Calls("edit_record")
          /\ 0 <= call'.index /\ call'.index < Len(records) )
        => ( /\ Len(records') = Len(records)
             /\ \A j \in 1..Len(records) :
                   records'[j] = IF j = call'.index + 1 THEN call'.rec ELSE records[j]
             /\ raised' = "none"
             /\ wrote'
             /\ FileHolds(file', records') ) ]_vars

C6_Witness ==
    /\ call.op = "edit_record"
    /\ wrote
    /\ Len(records) >= 2
    /\ call.index = 0
    /\ records[1] = call.rec
    /\ records[2] # call.rec

\* C7: what save_data writes depends on the record list alone (one block per
\* record, a blank line after each, the last included), whatever the file held
\* before, so a second save_data in a row leaves the file as the first made it
C7_SaveIdempotent ==
    [][ Calls("save_data")
        => ( /\ records' = records
             /\ FileHolds(file', records')
             /\ (call.op = "save_data" => file' = file) ) ]_vars

C7_Witness ==
    /\ call.op = "save_data"
    /\ repeated
    /\ records # <<>>
    /\ file.lines[Len(file.lines)] = <<>>

\* C8: search_records reports, in ascending index order and once each, with
\* index and fields, exactly the records where the query is a non-empty
\* substring of the date, or a substring of the category, or equal to the
\* decimal string of the amount; a match in the description alone, or inside
\* the amount string, reports nothing
Sought(query, r) ==
    \/ query # <<>> /\ Contains(r.date, query)
    \/ Contains(r.category, query)
    \/ NumStr(r.amount) = query

RECURSIVE SumAt(_, _)
SumAt(recs, S) ==
    IF S = {} THEN 0
    ELSE LET i == CHOOSE i \in S : TRUE
         IN  recs[i].amount.v + SumAt(recs, S \ {i})

C9_Balance ==
    call.op = "show_balance" =>
        LET income  == SumAt(records, {i \in 1..Len(records) : records[i].category = Income})
            expense == SumAt(records, {i \in 1..Len(records) : records[i].category = Expense})
        IN  /\ out.totals = <<income - expense, income, expense>>
            /\ records = <<>> => out.totals = <<0, 0, 0>>

C9_Witness ==
    /\ call.op = "show_balance"
    /\ out.totals[2] > 0
    /\ out.totals[3] > 0
    /\ \E i \in 1..Len(records) :
        /\ records[i].category \notin {Income, Expense}
        /\ records[i].amount.v # 0

\* C10: a file with an amount line whose value (what follows the first ": ")
\* is no floating-point number makes load_data, and so the construction,
\* fail with an error that reaches the caller
AmountValue(line) ==
    LET i == Find(line, Separator)
    IN  IF i = 0 THEN <<>> ELSE Drop(line, i + Len(Separator))
HasMalformedAmount(lines) ==
    \E k \in 1..Len(lines) :
        /\ StartsWith(Strip(lines[k]), LblAmount)
        /\ ~FloatOk(AmountValue(Strip(lines[k])))

C10_MalformedAmountFails ==
    (call.op = "__init__" /\ HasMalformedAmount(file.lines))
        => (raised # "none" /\ pc = "crashed")


\* C11: constructing a tracker where no file exists raises nothing, leaves
\* records empty and creates no file; with no file, the file comes into
\* existence exactly by a call that runs save_data, which of the menu's calls
\* only add_record does (edit_record and delete_record find no index in range)
C11_MissingFile ==
    [][ ~file.exists
        => ( /\ call'.op = "__init__"
                => (raised' = "none" /\ pc' = "ready" /\ records' = <<>> /\ ~file'.exists)
             /\ pc = "ready" => records = <<>>
             /\ file'.exists <=> (pc = "ready" /\ call'.op \in {"add_record", "save_data"})
             /\ Calls("add_record") => FileHolds(file', records') ) ]_vars

C11_Witness ==
    /\ call.op = "__init__"
    /\ pc = "ready"
    /\ raised = "none"
    /\ ~file.exists
    /\ records = <<>>

\* C12: is_valid_date(s) is true exactly when s is YYYY-MM-DD with four year
\* digits, a two-digit month 01..12 and a two-digit day that exists in that
\* month and year; every other string, "2024-1-1" included, gives false; it
\* never raises
IsPaddedCalendarDate(s) ==
    /\ IsDateShaped(s)
    /\ NatValue(SubSeq(s, 6, 7)) \in 1..12
    /\ NatValue(SubSeq(s, 9, 10)) \in 1..DaysIn(NatValue(SubSeq(s, 1, 4)), NatValue(SubSeq(s, 6, 7)))

C12_ValidIffPaddedDate ==
    call.op = "is_valid_date" =>
        /\ raised = "none"
        /\ out.valid <=> IsPaddedCalendarDate(call.query)


\* C13: search_records, show_balance and is_valid_date change neither the
\* record list nor the file, whatever the argument and the state, so the same
\* search made again on the unchanged tracker reports the same matches
C13_ReadOnly ==
    [][ (Calls("search_records") \/ Calls("show_balance") \/ Calls("is_valid_date"))
        => ( /\ records' = records
             /\ file' = file
             /\ ~wrote'
             /\ raised' = "none"
             /\ pc' = "ready"
             /\ (call' = call => out' = out) ) ]_vars

C13_Witness ==
    /\ call.op = "search_records"
    /\ repeated
    /\ out.matches # <<>>
    /\ Len(out.matches) < Len(records)
    /\ file.exists


\* C14: the value load_data stores for a labelled line is everything after the
\* first ": " of the line, further occurrences of ": " included: every field
\* a loaded record holds is the whole value of a line with that field's label
FieldValue(line) ==
    LET i == Find(line, Separator)
    IN  IF i = 0 THEN <<>> ELSE Drop(line, i + Len(Separator))
HasLine(lines, label, value) ==
    \E i \in 1..Len(lines) :
        StartsWith(Strip(lines[i]), label) /\ FieldValue(Strip(lines[i])) = value
HasAmountLine(lines, amount) ==
    \E i \in 1..Len(lines) :
        /\ StartsWith(Strip(lines[i]), LblAmount)
        /\ FloatOk(FieldValue(Strip(lines[i])))
        /\ FloatValue(FieldValue(Strip(lines[i]))) = amount

C14_ValueIsRestOfLine ==
    call.op = "__init__" =>
        \A k \in 1..Len(records) :
            /\ HasLine(file.lines, LblDate, records[k].date)
            /\ records[k].category # <<>> => HasLine(file.lines, LblCategory, records[k].category)
            /\ records[k].description # <<>>
                 => HasLine(file.lines, LblDescription, records[k].description)
            /\ records[k].amount # IntZero => HasAmountLine(file.lines, records[k].amount)

\* C15: a load that completes yields one record per line prefixed 'Дата:', in
\* file order; each takes category, amount and description from the labelled
\* lines between its date line and the next one (or the end), in whatever
\* order they stand, '' / 0 / '' where there is none; the last block is
\* appended too; blank and unrecognized lines change nothing
DateLines(lines) == {i \in 1..Len(lines) : StartsWith(Strip(lines[i]), LblDate)}
NthOf(S, k) == CHOOSE i \in S : Cardinality({j \in S : j <= i}) = k
\* the value as load_data reads it (C14 is about how it is cut)
ReadValue(line) == LineParts(Strip(line))[2]
\* the last line with the label strictly between lines lo and hi, 0 if none
LabelledIn(lines, lo, hi, label) ==
    LET S == {i \in (lo + 1)..(hi - 1) : StartsWith(Strip(lines[i]), label)}
    IN  IF S = {} THEN 0 ELSE CHOOSE i \in S : \A j \in S : j <= i
BlockRecord(lines, lo, hi) ==
    LET c == LabelledIn(lines, lo, hi, LblCategory)
        a == LabelledIn(lines, lo, hi, LblAmount)
        d == LabelledIn(lines, lo, hi, LblDescription)
    IN  Record(ReadValue(lines[lo]),
               IF c = 0 THEN <<>> ELSE ReadValue(lines[c]),
               IF a = 0 THEN IntZero ELSE FloatValue(ReadValue(lines[a])),
               IF d = 0 THEN <<>> ELSE ReadValue(lines[d]))
BlockRecords(lines) ==
    LET S == DateLines(lines)
        n == Cardinality(S)
    IN  [k \in 1..n |->
            BlockRecord(lines, NthOf(S, k), IF k = n THEN Len(lines) + 1 ELSE NthOf(S, k + 1))]

C15_OneRecordPerDateLine ==
    (call.op = "__init__" /\ raised = "none") => records = BlockRecords(file.lines)

C15_Witness ==
    /\ call.op = "__init__"
    /\ raised = "none"
    /\ Len(records) = 2
    /\ records[1].category # <<>>
    /\ records[2] = Record(Date1, <<>>, IntZero, <<>>)

\* C16: whatever lines the file holds, load_data completes or fails with the
\* amount parse error, and with no other exception: not for a labelled line
\* before the first date line, not for a label with no value after it
C16_OnlyParseErrors ==
    call.op = "__init__" => raised \in {"none", "ValueError"}

\* C17: a load_data that fails with the parse error leaves the record list as
\* it was before the call (empty, in the constructor): the blocks before the
\* malformed amount line are not left appended
C17_FailedLoadAppendsNothing ==
    (call.op = "__init__" /\ raised = "ValueError") => records = <<>>

\* C18: load_data does not clear the list: on a tracker holding n records and
\* a file of m blocks it leaves the n records at their indices and appends the
\* m parsed ones, n + m in all
C18_LoadAppends ==
    [][ (Calls("load_data") /\ raised' = "none")
        => ( /\ Len(records') = Len(records) + Cardinality(DateLines(file.lines))
             /\ SubSeq(records', 1, Len(records)) = records
             /\ SubSeq(records', Len(records) + 1, Len(records')) = BlockRecords(file.lines) ) ]_vars

C18_Witness ==
    /\ call.op = "load_data"
    /\ raised = "none"
    /\ Len(records) = 4
    /\ Cardinality(DateLines(file.lines)) = 2
    /\ records[1].category # records[2].category


\* C19: the menu calls add_record and edit_record only once re-prompting has
\* ended: in every such call the date satisfies is_valid_date, the category
\* is 'Доход' or 'Расход' and the amount is not negative, so every record the
\* menu created or replaced satisfies the three conditions in every state
Validated(r) ==
    /\ IsValidDate(r.date)
    /\ r.category \in {Income, Expense}
    /\ r.amount.v >= 0

C19_MenuValidates ==
    /\ call.op \in {"add_record", "edit_record"} => Validated(call.rec)
    /\ \A k \in 1..Len(records) : Validated(records[k])

C19_Witness ==
    /\ call.op = "edit_record"
    /\ wrote
    /\ Len(records) = 2
    /\ records[call.index + 1] = call.rec
    /\ records[1] # records[2]

=============================================================================
